---- MODULE Spec2Model ----
(***************************************************************************)
(* Model of the creative-generation pipeline of Meta Creative Builder:     *)
(* CreativeForm.handleSubmit -> App.handleGenerate -> generateAdCreatives  *)
(* (services/geminiService.ts).  The generative-AI service is the          *)
(* environment: every awaited call draws its outcome from a small set.     *)
(***************************************************************************)
EXTENDS Integers, Sequences, FiniteSets, TLC

VARIABLES pc, inputs, correctedInputs, productInfo, initialAdCopy,
          finalAdCopy, textReply, promises, operation, polls, calls, outcome,
          isLoading, loadingMessage, results, error, timer, messageIndex

vars == <<pc, inputs, correctedInputs, productInfo, initialAdCopy,
          finalAdCopy, textReply, promises, operation, polls, calls, outcome,
          isLoading, loadingMessage, results, error, timer, messageIndex>>

(***************************************************************************)
(* Bounds of the model.                                                    *)
(***************************************************************************)
\* longest text the service returns from a proofreading call
MaxTextLen == 1
\* longest array the service returns from a copy call
MaxCopy == 3
\* most "not done" answers of the video operation in one run
MaxPolls == 2

(***************************************************************************)
(* Texts: a JavaScript string is a sequence of characters.                 *)
(***************************************************************************)
Space == " "
Quote == "\""
Chars == {"a", Space, Quote}

Texts == UNION {[1..k -> Chars] : k \in 0..MaxTextLen}

\* the value of response.text when the response carries no text part
Undefined == <<"undefined">>

\* JavaScript truthiness of a string-or-undefined value
Truthy(t) == t # <<>> /\ t # Undefined

RECURSIVE TrimLeft(_)
TrimLeft(t) == IF t # <<>> /\ Head(t) = Space THEN TrimLeft(Tail(t)) ELSE t

RECURSIVE TrimRight(_)
TrimRight(t) ==
    IF t # <<>> /\ t[Len(t)] = Space THEN TrimRight(SubSeq(t, 1, Len(t) - 1)) ELSE t

\* String.prototype.trim
Trim(t) == TrimRight(TrimLeft(t))

\* t.replace(/^"|"$/g, '')
StripQuotes(t) ==
    LET lead  == Len(t) > 0 /\ t[1] = Quote
        from  == IF lead THEN 2 ELSE 1
        trail == Len(t) >= from /\ t[Len(t)] = Quote
        to    == IF trail THEN Len(t) - 1 ELSE Len(t)
    IN  SubSeq(t, from, to)

(***************************************************************************)
(* types.ts                                                                *)
(***************************************************************************)
CreativeFormat == {"SQUARE", "HORIZONTAL", "VERTICAL"}
CreativeType == {"Image", "Video"}

\* the texts a user types into the form
FormTexts == {<<>>, <<"a">>}
FormUrls == {<<>>, <<"u">>}
FormImages == {"none", "jpeg"}

DefaultDescription == <<"C", "r", "e", "a">>

DescContext == <<"A product description for an online ad.">>

NumVariations == 3
Variations == 1..NumVariations
variationNames == <<"Minimalist", "Lifestyle", "Dynamic">>

(***************************************************************************)
(* Error messages.                                                         *)
(***************************************************************************)
NoError == "null"
ErrCopyParse == "Failed to generate valid ad copy."
ErrNoCopy == "Failed to generate ad copy."
ErrEditNoImages == "Image editing failed to produce any images."
ErrImageGen == "Image generation failed to produce an image."
ErrNoImages == "Failed to generate images."
ErrVideoNoUri == "Video generation failed. The model did not return a video."
ErrDownload == "Failed to download the generated video"
ErrTypeError == "TypeError: Cannot read properties of null (reading 'length')"
\* the message of the error a rejected service call carries
ServiceError(op) == "service error: " \o op


(***************************************************************************)
(* JSON values a copy call can parse to, and the AdCopy entries in them.   *)
(***************************************************************************)
AdCopy(src, i) == [src |-> src, idx |-> i]
\* what indexing yields when there is no such element
UndefinedCopy == [src |-> "undefined", idx |-> 0]

JsonArray(items) == [kind |-> "array", items |-> items]
JsonNull == [kind |-> "null", items |-> <<>>]
\* a parsed value that is not an array (an object, a number): it has no length
JsonObject == [kind |-> "object", items |-> <<>>]
\* a local that has not been assigned yet
Unset == [kind |-> "unset", items |-> <<>>]

ArraysOf(src) == {JsonArray([i \in 1..n |-> AdCopy(src, i)]) : n \in 0..MaxCopy}
JsonValues(src) == ArraysOf(src) \cup {JsonNull, JsonObject}

\* !v in JavaScript, for the values above
Falsy(v) == v.kind = "null"
\* v.length === 0; reading .length of null raises a TypeError instead
LengthIsZero(v) == v.kind = "array" /\ Len(v.items) = 0
LengthRaises(v) == v.kind = "null"

(***************************************************************************)
(* Replies of the text model (ai.models.generateContent).                  *)
(*   reject  : the call's promise rejects                                  *)
(*   missing : the response has no text (response.text is undefined)       *)
(*   garbage : the text is not JSON                                        *)
(*   text    : a plain text;  json : a text that parses to `payload`       *)
(*   none    : no request was made                                         *)
(***************************************************************************)
Reply(op, kind, payload) == [op |-> op, kind |-> kind, payload |-> payload]
NoReply(op) == Reply(op, "none", <<>>)

TextReplies(op) ==
    {Reply(op, "reject", <<>>), Reply(op, "missing", <<>>)}
        \cup {Reply(op, "text", t) : t \in Texts}

\* the texts the service composes for a product URL
InfoTexts == {<<>>, <<"a">>}
InfoReplies(op) ==
    {Reply(op, "reject", <<>>), Reply(op, "missing", <<>>)}
        \cup {Reply(op, "text", t) : t \in InfoTexts}

JsonReplies(op, src) ==
    {Reply(op, "reject", <<>>), Reply(op, "missing", <<>>), Reply(op, "garbage", <<>>)}
        \cup {Reply(op, "json", v) : v \in JsonValues(src)}

\* result of a call that either returns a value or throws an Error
Return(v) == [ok |-> TRUE, value |-> v, msg |-> NoError]
Throw(m) == [ok |-> FALSE, value |-> <<>>, msg |-> m]

(***************************************************************************)
(* geminiService.ts: the text steps.                                       *)
(***************************************************************************)
\* variant: a rejected request falls back to the description
getProductInfoFallback(in, r) ==
    IF Truthy(in.productUrl) /\ r.kind # "reject"
    THEN IF r.kind = "missing" THEN Return(Undefined) ELSE Return(r.payload)
    ELSE Return(in.productDescription)

\* getProductInfo: with a URL the reply's text verbatim, else the description
getProductInfo(in, r) ==
    IF Truthy(in.productUrl)
    THEN IF r.kind = "reject" THEN Throw(ServiceError("getProductInfo"))
         ELSE IF r.kind = "missing" THEN Return(Undefined)
         ELSE Return(r.payload)
    ELSE Return(in.productDescription)

\* variant: a parse failure yields an empty list instead of throwing
generateAdCopySwallow(r) ==
    IF r.kind = "reject" THEN Throw(ServiceError("generateAdCopy"))
    ELSE IF r.kind = "json" THEN Return(r.payload)
    ELSE Return(JsonArray(<<>>))

\* generateAdCopy: JSON.parse of the reply's text, a parse failure is fatal
generateAdCopy(r) ==
    IF r.kind = "reject" THEN Throw(ServiceError("generateAdCopy"))
    ELSE IF r.kind = "json" THEN Return(r.payload)
    ELSE Throw(ErrCopyParse)

\* proofreadText makes a request unless the text is empty or blank
ProofreadTextRequests(text) == ~(~Truthy(text) \/ ~Truthy(Trim(text)))

proofreadText(text, r) ==
    IF ~ProofreadTextRequests(text) THEN text
    ELSE IF r.kind = "text" THEN StripQuotes(Trim(r.payload))
    ELSE text

\* proofreadAdCopy makes a request unless the list is null or empty
ProofreadAdCopyRequests(adCopies) == ~(Falsy(adCopies) \/ LengthIsZero(adCopies))

\* variant: the catch branch returns an empty list instead of the original
proofreadAdCopyEmptyOnError(adCopies, r) ==
    IF ~ProofreadAdCopyRequests(adCopies) THEN adCopies
    ELSE IF r.kind = "json" THEN r.payload
    ELSE JsonArray(<<>>)

proofreadAdCopy(adCopies, r) ==
    IF ~ProofreadAdCopyRequests(adCopies) THEN adCopies
    ELSE IF r.kind = "json" THEN r.payload
    ELSE adCopies


(***************************************************************************)
(* geminiService.ts: the asset steps.                                      *)
(***************************************************************************)
\* variant: the horizontal and vertical ratios swapped
getAspectRatioSwapped(format) ==
    CASE format = "SQUARE" -> "1:1"
      [] format = "HORIZONTAL" -> "9:16"
      [] format = "VERTICAL" -> "16:9"
      [] OTHER -> "1:1"

getAspectRatio(format) ==
    CASE format = "SQUARE" -> "1:1"
      [] format = "HORIZONTAL" -> "16:9"
      [] format = "VERTICAL" -> "9:16"
      [] OTHER -> "1:1"

\* a reference to an asset: a data: URL of an image, a blob: URL of a video
AssetUrl(scheme, mime, data) == [scheme |-> scheme, mime |-> mime, data |-> data]

\* the response of an image request that carries no image
NoImage == 0

\* one of the three requests of generateImages: what was sent, and its outcome
\* (state pending | fulfilled | rejected; data = the image of the response)
ImageRequest(i, api, aspectRatio) ==
    [variation |-> i, api |-> api, aspectRatio |-> aspectRatio,
     state |-> "pending", data |-> NoImage]

\* the requests generateImages issues, all before it awaits any of them
IssueImageRequests(in) ==
    IF in.productImage # "none"
    THEN [i \in Variations |-> ImageRequest(i, "edit", "n/a")]
    ELSE [i \in Variations |->
            ImageRequest(i, "generate", getAspectRatio(in.creativeFormat))]

\* variant: Promise.allSettled, which waits for every request
AllSettlesWaitsForAll(ps) ==
    \A i \in DOMAIN ps : ps[i].state # "pending"

\* Promise.all: rejects with the first rejection, resolves once all fulfilled
AllSettles(ps) ==
    \/ \E i \in DOMAIN ps : ps[i].state = "rejected"
    \/ \A i \in DOMAIN ps : ps[i].state = "fulfilled"

\* variant: the edit branch as strict as the text-to-image branch
collectEditedStrict(ps) ==
    IF \E i \in DOMAIN ps : ps[i].data = NoImage THEN Throw(ErrEditNoImages)
    ELSE Return([k \in 1..Len(ps) |-> AssetUrl("data", "image/png", ps[k].data)])

\* image-edit branch: keep the responses that carry an image, fail on none
collectEdited(ps) ==
    LET ok == SelectSeq(ps, LAMBDA p : p.data # NoImage)
        successfulImages ==
            [k \in 1..Len(ok) |-> AssetUrl("data", "image/png", ok[k].data)]
    IN  IF Len(successfulImages) = 0 THEN Throw(ErrEditNoImages)
        ELSE Return(successfulImages)

\* variant: the text-to-image branch as tolerant as the edit branch
collectGeneratedTolerant(ps) ==
    LET ok == SelectSeq(ps, LAMBDA p : p.data # NoImage)
    IN  Return([k \in 1..Len(ok) |-> AssetUrl("data", "image/jpeg", ok[k].data)])

\* text-to-image branch: a response without an image throws
collectGenerated(ps) ==
    IF \E i \in DOMAIN ps : ps[i].data = NoImage THEN Throw(ErrImageGen)
    ELSE Return([k \in 1..Len(ps) |-> AssetUrl("data", "image/jpeg", ps[k].data)])

\* what `await generateImages(...)` yields once Promise.all has settled
generateImages(in, ps) ==
    IF \E i \in DOMAIN ps : ps[i].state = "rejected"
    THEN Throw(ServiceError("generateImages"))
    ELSE IF in.productImage # "none" THEN collectEdited(ps)
    ELSE collectGenerated(ps)

\* variant: finalAdCopy[index], without the wraparound
copyAtNoWrap(list, index) ==
    IF list.kind = "array" /\ index < Len(list.items)
    THEN list.items[index + 1]
    ELSE UndefinedCopy

\* finalAdCopy[index % finalAdCopy.length], index counted from 0
copyAt(list, index) ==
    IF list.kind = "array" /\ Len(list.items) > 0
    THEN list.items[(index % Len(list.items)) + 1]
    ELSE UndefinedCopy

\* `Variation ${index + 1}: ${variationNames[index % variationNames.length]}`
variationLabel(index) ==
    <<"Variation", index + 1, variationNames[(index % Len(variationNames)) + 1]>>

AdCreative(id, url, type, copy, variation) ==
    [id |-> id, url |-> url, type |-> type, copy |-> copy, variation |-> variation]

\* variant: one identifier drawn for the whole run
imageCreativesOneId(imageUrls, copy) ==
    [k \in 1..Len(imageUrls) |->
        AdCreative(1, imageUrls[k], "Image", copyAt(copy, k - 1), variationLabel(k - 1))]

\* imageUrls.map(...): the k-th record carries the k-th identifier drawn
imageCreatives(imageUrls, copy) ==
    [k \in 1..Len(imageUrls) |->
        AdCreative(k, imageUrls[k], "Image", copyAt(copy, k - 1), variationLabel(k - 1))]

\* variant: the video is paired with the last copy variant
videoCreativesLastCopy(videoUrls, copy) ==
    IF Len(videoUrls) > 0
    THEN <<AdCreative(1, videoUrls[1], "Video",
                      copyAt(copy, Len(copy.items) - 1), <<"Video Creative">>)>>
    ELSE <<>>

videoCreatives(videoUrls, copy) ==
    IF Len(videoUrls) > 0
    THEN <<AdCreative(1, videoUrls[1], "Video", copyAt(copy, 0), <<"Video Creative">>)>>
    ELSE <<>>

\* the long-running video operation as the service reports it
Operation(done, uri) == [done |-> done, uri |-> uri]
NoOperation == Operation(FALSE, "unset")
NoUri == "none"
VideoUris == {NoUri, "uri1"}
\* a running operation has no response yet; a finished one may lack the video
OperationReports ==
    {Operation(FALSE, NoUri)} \cup {Operation(TRUE, u) : u \in VideoUris}

\* variant: the download link itself used as the video reference
createObjectURLLink(uri) == AssetUrl("https", "video", <<uri>>)

\* URL.createObjectURL(await videoResponse.blob())
createObjectURL(uri) == AssetUrl("blob", "video", <<"bytes of", uri>>)

(***************************************************************************)
(* CreativeForm.handleSubmit and App.handleGenerate.                       *)
(***************************************************************************)
\* a status message is the sequence of its words
videoLoadingMessages ==
    <<<<"Generating", "video", "concept...">>,
      <<"Rendering", "frames...", "this", "can", "take", "a", "few", "minutes.">>,
      <<"Adding", "dynamic", "transitions...">>,
      <<"Optimizing", "for", "high", "engagement...">>,
      <<"Finalizing", "your", "video", "creative...">>>>

InitialMessage == <<"Generating", "creatives...">>
ImageMessage == <<"Generating", "image", "creatives...">>

\* loadingMessage.includes('video')
IncludesVideo(msg) == \E k \in DOMAIN msg : msg[k] = "video"

\* variant: the effect arms the interval whenever a run is loading
useEffectAnyMessage(loading, msg) ==
    IF loading
    THEN [timer |-> TRUE, index |-> 0, message |-> videoLoadingMessages[1]]
    ELSE [timer |-> FALSE, index |-> 0, message |-> msg]

\* The effect of App, run after isLoading or loadingMessage has changed: the
\* cleanup clears the running interval; when a run is loading and the message
\* includes 'video' the effect shows the first message and arms a new
\* interval whose closure starts at index 0.
useEffect(loading, msg) ==
    IF loading /\ IncludesVideo(msg)
    THEN [timer |-> TRUE, index |-> 0, message |-> videoLoadingMessages[1]]
    ELSE [timer |-> FALSE, index |-> 0, message |-> msg]

NullResults == [isNull |-> TRUE, list |-> <<>>]
ResultsOf(list) == [isNull |-> FALSE, list |-> list]

UserInputs(d, u, img, f, t, h) ==
    [productDescription |-> d, productUrl |-> u, productImage |-> img,
     creativeFormat |-> f, creativeType |-> t, hookText |-> h]

\* handleSubmit: the default description when nothing identifies the product
handleSubmit(f) ==
    IF ~Truthy(f.productDescription) /\ ~Truthy(f.productUrl) /\ f.productImage = "none"
    THEN [f EXCEPT !.productDescription = DefaultDescription]
    ELSE f

\* one entry of the trace of the pipeline's calls
Call(op, text, context) == [op |-> op, text |-> text, context |-> context]


(***************************************************************************)
(* State.                                                                  *)
(*   pc              position of the run: Idle, a step of                  *)
(*                   generateAdCreatives, or Done | Failed once its        *)
(*                   promise has settled and handleGenerate has yet to     *)
(*                   resume                                                *)
(*   inputs          the UserInputs handed to generateAdCreatives          *)
(*   correctedInputs, productInfo, initialAdCopy, finalAdCopy  its locals  *)
(*   textReply       the latest reply of the text model                    *)
(*   promises        the three image requests of generateImages            *)
(*   operation, polls  the video operation and the polls made so far       *)
(*   calls           trace of the pipeline calls of the current run        *)
(*   outcome         what generateAdCreatives returned or threw            *)
(*   isLoading, loadingMessage, results, error   the state of App          *)
(*   timer, messageIndex   whether the interval of App's effect is armed,  *)
(*                   and the index its closure holds                       *)
(* The fields of CreativeForm are the inputs of Submit; the font style,    *)
(* which only reaches prompts, is left out.                                *)
(***************************************************************************)
Running == {"ProofreadDesc", "GetProductInfo", "ProofreadHook", "GenerateCopy",
            "ProofreadCopy", "GenerateVideo", "PollVideo", "FetchVideo",
            "AwaitImages"}

Pending == [ok |-> FALSE, value |-> <<>>, msg |-> "pending"]

NoInputs == UserInputs(<<>>, <<>>, "none", "SQUARE", "Image", <<>>)

\* the locals of a run, before it starts and after it is over
NoRun ==
    /\ inputs = NoInputs
    /\ correctedInputs = NoInputs
    /\ productInfo = <<>>
    /\ initialAdCopy = Unset
    /\ finalAdCopy = Unset
    /\ textReply = NoReply("none")
    /\ promises = <<>>
    /\ operation = NoOperation
    /\ polls = 0
    /\ calls = <<>>
    /\ outcome = Pending

Init ==
    /\ pc = "Idle"
    /\ NoRun
    /\ isLoading = FALSE
    /\ loadingMessage = InitialMessage
    /\ timer = FALSE
    /\ messageIndex = 0
    /\ results = NullResults
    /\ error = NoError

App == <<isLoading, loadingMessage, results, error, timer, messageIndex>>

\* generateAdCreatives returns the list
Succeed(list) ==
    /\ pc' = "Done"
    /\ outcome' = Return(list)
    /\ UNCHANGED App

\* generateAdCreatives throws
Fail(msg) ==
    /\ pc' = "Failed"
    /\ outcome' = Throw(msg)
    /\ UNCHANGED App

Continue(next) ==
    /\ pc' = next
    /\ UNCHANGED outcome
    /\ UNCHANGED App

\* variant: handleGenerate without setError(null)
SubmitKeepsError ==
    /\ pc = "Idle"
    /\ ~isLoading
    /\ \E d \in FormTexts, u \in FormUrls, img \in FormImages,
          f \in CreativeFormat, t \in CreativeType, h \in FormTexts :
        /\ inputs' = handleSubmit(UserInputs(d, u, img, f, t, h))
        /\ correctedInputs' = inputs'
        /\ LET shown == useEffect(TRUE, IF t = "Video" THEN videoLoadingMessages[1]
                                          ELSE ImageMessage)
           IN  /\ loadingMessage' = shown.message
               /\ timer' = shown.timer
               /\ messageIndex' = shown.index
    /\ isLoading' = TRUE
    /\ results' = NullResults
    /\ pc' = "ProofreadDesc"
    /\ UNCHANGED <<productInfo, initialAdCopy, finalAdCopy, textReply, promises,
                   operation, polls, calls, outcome, error>>

\* The user fills the form and submits it (the button is disabled while a
\* run is loading): handleSubmit, handleGenerate up to its await, and the
\* start of generateAdCreatives.
Submit ==
    /\ pc = "Idle"
    /\ ~isLoading
    /\ \E d \in FormTexts, u \in FormUrls, img \in FormImages,
          f \in CreativeFormat, t \in CreativeType, h \in FormTexts :
        /\ inputs' = handleSubmit(UserInputs(d, u, img, f, t, h))
        /\ correctedInputs' = inputs'
        /\ LET shown == useEffect(TRUE, IF t = "Video" THEN videoLoadingMessages[1]
                                          ELSE ImageMessage)
           IN  /\ loadingMessage' = shown.message
               /\ timer' = shown.timer
               /\ messageIndex' = shown.index
    /\ isLoading' = TRUE
    /\ error' = NoError
    /\ results' = NullResults
    /\ pc' = "ProofreadDesc"
    /\ UNCHANGED <<productInfo, initialAdCopy, finalAdCopy, textReply, promises,
                   operation, polls, calls, outcome>>

\* handleGenerate resumes after its await: setResults or setError, then
\* setIsLoading(false); the locals of the run are gone
HandleGenerateResumes ==
    /\ pc \in {"Done", "Failed"}
    /\ IF outcome.ok
       THEN results' = ResultsOf(outcome.value) /\ UNCHANGED error
       ELSE error' = outcome.msg /\ UNCHANGED results
    /\ isLoading' = FALSE
    /\ LET shown == useEffect(FALSE, loadingMessage)
       IN  /\ loadingMessage' = shown.message
           /\ timer' = shown.timer
           /\ messageIndex' = shown.index
    /\ pc' = "Idle"
    /\ inputs' = NoInputs
    /\ correctedInputs' = NoInputs
    /\ productInfo' = <<>>
    /\ initialAdCopy' = Unset
    /\ finalAdCopy' = Unset
    /\ textReply' = NoReply("none")
    /\ promises' = <<>>
    /\ operation' = NoOperation
    /\ polls' = 0
    /\ calls' = <<>>
    /\ outcome' = Pending

\* variant: step 1 without the !productUrl guard
StepProofreadDescriptionAlways ==
    /\ pc = "ProofreadDesc"
    /\ LET text == correctedInputs.productDescription IN
        IF Truthy(text)
        THEN \E r \in (IF ProofreadTextRequests(text) THEN TextReplies("description")
                       ELSE {NoReply("description")}) :
                /\ correctedInputs' =
                     [correctedInputs EXCEPT !.productDescription = proofreadText(text, r)]
                /\ textReply' = r
                /\ calls' = Append(calls, Call("proofreadText:description", text, DescContext))
        ELSE /\ textReply' = NoReply("description")
             /\ UNCHANGED <<correctedInputs, calls>>
    /\ Continue("GetProductInfo")
    /\ UNCHANGED <<inputs, productInfo, initialAdCopy, finalAdCopy,
                   promises, operation, polls>>

\* 1. proofread the description when it was given directly
StepProofreadDescription ==
    /\ pc = "ProofreadDesc"
    /\ LET text == correctedInputs.productDescription IN
        IF ~Truthy(correctedInputs.productUrl) /\ Truthy(text)
        THEN \E r \in (IF ProofreadTextRequests(text) THEN TextReplies("description")
                       ELSE {NoReply("description")}) :
                /\ correctedInputs' =
                     [correctedInputs EXCEPT !.productDescription = proofreadText(text, r)]
                /\ textReply' = r
                /\ calls' = Append(calls, Call("proofreadText:description", text, DescContext))
        ELSE /\ textReply' = NoReply("description")
             /\ UNCHANGED <<correctedInputs, calls>>
    /\ Continue("GetProductInfo")
    /\ UNCHANGED <<inputs, productInfo, initialAdCopy, finalAdCopy,
                   promises, operation, polls>>

\* 2. resolve the product info
StepGetProductInfo ==
    /\ pc = "GetProductInfo"
    /\ \E r \in (IF Truthy(correctedInputs.productUrl) THEN InfoReplies("getProductInfo")
                 ELSE {NoReply("getProductInfo")}) :
        LET res == getProductInfo(correctedInputs, r) IN
        /\ textReply' = r
        /\ IF res.ok
           THEN productInfo' = res.value /\ Continue("ProofreadHook")
           ELSE Fail(res.msg) /\ UNCHANGED productInfo
    /\ calls' = Append(calls, Call("getProductInfo", correctedInputs.productDescription,
                                   correctedInputs.productUrl))
    /\ UNCHANGED <<inputs, correctedInputs, initialAdCopy, finalAdCopy,
                   promises, operation, polls>>

\* 3. proofread the hook text with the product info as context
StepProofreadHook ==
    /\ pc = "ProofreadHook"
    /\ LET text == correctedInputs.hookText IN
        IF Truthy(text)
        THEN \E r \in (IF ProofreadTextRequests(text) THEN TextReplies("hook")
                       ELSE {NoReply("hook")}) :
                /\ correctedInputs' =
                     [correctedInputs EXCEPT !.hookText = proofreadText(text, r)]
                /\ textReply' = r
                /\ calls' = Append(calls, Call("proofreadText:hookText", text, productInfo))
        ELSE /\ textReply' = NoReply("hook")
             /\ UNCHANGED <<correctedInputs, calls>>
    /\ Continue("GenerateCopy")
    /\ UNCHANGED <<inputs, productInfo, initialAdCopy, finalAdCopy,
                   promises, operation, polls>>

\* 4a. generate the ad copy
StepGenerateAdCopy ==
    /\ pc = "GenerateCopy"
    /\ \E r \in JsonReplies("generateAdCopy", "generated") :
        LET res == generateAdCopy(r) IN
        /\ textReply' = r
        /\ IF res.ok
           THEN initialAdCopy' = res.value /\ Continue("ProofreadCopy")
           ELSE Fail(res.msg) /\ UNCHANGED initialAdCopy
    /\ calls' = Append(calls, Call("generateAdCopy", productInfo, <<>>))
    /\ UNCHANGED <<inputs, correctedInputs, productInfo, finalAdCopy,
                   promises, operation, polls>>

\* if (finalAdCopy.length === 0) throw
checkAdCopy(final) ==
    IF LengthRaises(final) THEN Throw(ErrTypeError)
    ELSE IF LengthIsZero(final) THEN Throw(ErrNoCopy)
    ELSE Return(final)

\* 4b. proofread the ad copy, check it, and 5. start the asset generation:
\* generateVideos makes its request, generateImages issues its three
StepProofreadAdCopy ==
    /\ pc = "ProofreadCopy"
    /\ \E r \in (IF ProofreadAdCopyRequests(initialAdCopy)
                 THEN JsonReplies("proofreadAdCopy", "corrected")
                 ELSE {NoReply("proofreadAdCopy")}) :
        LET final == proofreadAdCopy(initialAdCopy, r)
            res == checkAdCopy(final)
            logged == Append(calls, Call("proofreadAdCopy", <<>>, productInfo))
        IN
        /\ textReply' = r
        /\ finalAdCopy' = final
        /\ IF ~res.ok
           THEN Fail(res.msg) /\ calls' = logged /\ UNCHANGED promises
           ELSE IF inputs.creativeType = "Video"
           THEN /\ Continue("GenerateVideo")
                /\ calls' = Append(logged, Call("generateVideos", productInfo,
                                                correctedInputs.hookText))
                /\ UNCHANGED promises
           ELSE /\ Continue("AwaitImages")
                /\ calls' = Append(logged, Call("generateImages", productInfo,
                                                correctedInputs.hookText))
                /\ promises' = IssueImageRequests(correctedInputs)
    /\ UNCHANGED <<inputs, correctedInputs, productInfo, initialAdCopy,
                   operation, polls>>

\* 5/6, image run: request i settles; when that settles Promise.all the
\* pipeline collects the images and assembles the creatives
ImageSettles(i) ==
    /\ pc = "AwaitImages"
    /\ promises[i].state = "pending"
    /\ \E o \in {"rejected", "empty", "image"} :
        LET ps == [promises EXCEPT
                     ![i].state = IF o = "rejected" THEN "rejected" ELSE "fulfilled",
                     ![i].data = IF o = "image" THEN i ELSE NoImage]
            res == generateImages(correctedInputs, ps)
        IN
        /\ promises' = ps
        /\ IF ~AllSettles(ps) THEN Continue("AwaitImages")
           ELSE IF ~res.ok THEN Fail(res.msg)
           ELSE IF Len(res.value) = 0 THEN Fail(ErrNoImages)
           ELSE Succeed(imageCreatives(res.value, finalAdCopy))
    /\ UNCHANGED <<inputs, correctedInputs, productInfo, initialAdCopy,
                   finalAdCopy, textReply, operation, polls, calls>>

\* const downloadLink = ...uri; if (!downloadLink) throw
afterDone(op) ==
    IF op.uri = NoUri THEN Fail(ErrVideoNoUri) ELSE Continue("FetchVideo")

\* 5, video run: the answer to ai.models.generateVideos
StartVideo ==
    /\ pc = "GenerateVideo"
    /\ \/ Fail(ServiceError("generateVideos")) /\ UNCHANGED operation
       \/ \E op \in OperationReports :
            /\ operation' = op
            /\ IF op.done THEN afterDone(op) ELSE Continue("PollVideo")
    /\ UNCHANGED <<inputs, correctedInputs, productInfo, initialAdCopy,
                   finalAdCopy, textReply, promises, polls, calls>>

\* one turn of while (!operation.done): wait 10 s, then getVideosOperation
PollVideo ==
    /\ pc = "PollVideo"
    /\ polls' = IF polls < MaxPolls THEN polls + 1 ELSE polls
    /\ \/ Fail(ServiceError("getVideosOperation")) /\ UNCHANGED operation
       \/ \E op \in OperationReports :
            /\ operation' = op
            /\ IF op.done THEN afterDone(op) ELSE Continue("PollVideo")
    /\ UNCHANGED <<inputs, correctedInputs, productInfo, initialAdCopy,
                   finalAdCopy, textReply, promises, calls>>

\* the fetch of the video bytes, and the assembly of the video creative
FetchVideo ==
    /\ pc = "FetchVideo"
    /\ \/ Fail(ServiceError("fetch"))
       \/ Fail(ErrDownload)
       \/ Succeed(videoCreatives(<<createObjectURL(operation.uri)>>, finalAdCopy))
    /\ UNCHANGED <<inputs, correctedInputs, productInfo, initialAdCopy,
                   finalAdCopy, textReply, promises, operation, polls, calls>>

\* The interval of the effect fires (every 4 s while armed): the closure's
\* index advances and the message is set, which runs the effect again.
Tick ==
    /\ timer
    /\ LET next == (messageIndex + 1) % Len(videoLoadingMessages)
           msg == videoLoadingMessages[next + 1]
           shown == IF msg = loadingMessage
                    THEN [timer |-> TRUE, index |-> next, message |-> msg]
                    ELSE useEffect(isLoading, msg)
       IN  /\ loadingMessage' = shown.message
           /\ timer' = shown.timer
           /\ messageIndex' = shown.index
    /\ UNCHANGED <<pc, inputs, correctedInputs, productInfo, initialAdCopy,
                   finalAdCopy, textReply, promises, operation, polls, calls,
                   outcome, isLoading, results, error>>

Next ==
    \/ Submit
    \/ Tick
    \/ HandleGenerateResumes
    \/ StepProofreadDescription
    \/ StepGetProductInfo
    \/ StepProofreadHook
    \/ StepGenerateAdCopy
    \/ StepProofreadAdCopy
    \/ \E i \in Variations : ImageSettles(i)
    \/ StartVideo
    \/ PollVideo
    \/ FetchVideo

Spec == Init /\ [][Next]_vars


(***************************************************************************)
(* Vocabulary of the properties.                                           *)
(***************************************************************************)
AssetStages == {"GenerateVideo", "PollVideo", "FetchVideo", "AwaitImages"}
AssetOps == {"generateImages", "generateVideos"}

Called(ops) == \E k \in DOMAIN calls : calls[k].op \in ops
LastCall == IF calls = <<>> THEN "none" ELSE calls[Len(calls)].op

ImageRun == inputs.creativeType = "Image"
VideoRun == inputs.creativeType = "Video"
EditRun == ImageRun /\ inputs.productImage # "none"
TextToImageRun == ImageRun /\ inputs.productImage = "none"

Issued == Len(promises) = NumVariations
AllReturned == Issued /\ \A i \in Variations : promises[i].state = "fulfilled"
WithImage == {i \in DOMAIN promises : promises[i].data # NoImage}
Emptied == {i \in DOMAIN promises :
              promises[i].state = "fulfilled" /\ promises[i].data = NoImage}

IsList(v) == v.kind = "array"
NonEmptyList(v) == IsList(v) /\ Len(v.items) > 0

(***************************************************************************)
(* C1.  Neither proofreading operation raises: when its request is         *)
(* rejected, or the reply has no text, or (for the ad copy) the text is    *)
(* not JSON, proofreadText yields the original text and proofreadAdCopy    *)
(* the original list, and the run does not fail at that step.              *)
(***************************************************************************)
C1_ProofreadingFailsOpen ==
    /\ (textReply.op = "description" /\ textReply.kind \in {"reject", "missing"})
        => /\ pc = "GetProductInfo"
           /\ correctedInputs.productDescription = inputs.productDescription
    /\ (textReply.op = "hook" /\ textReply.kind \in {"reject", "missing"})
        => /\ pc = "GenerateCopy"
           /\ correctedInputs.hookText = inputs.hookText
    /\ (textReply.op = "proofreadAdCopy"
            /\ textReply.kind \in {"reject", "missing", "garbage"})
        => /\ finalAdCopy = initialAdCopy
           /\ ~(pc = "Failed" /\ LastCall = "proofreadAdCopy")
           /\ Called(AssetOps)

C1_Witness ==
    /\ textReply.op = "proofreadAdCopy"
    /\ textReply.kind = "garbage"
    /\ NonEmptyList(initialAdCopy)
    /\ finalAdCopy = initialAdCopy
    /\ pc = "AwaitImages"

C3_EditPartialTolerance ==
    (EditRun /\ AllReturned) =>
        LET k == Cardinality(WithImage) IN
        /\ k >= 1 => (pc = "Done" /\ outcome.ok /\ Len(outcome.value) = k)
        /\ k = 0 => (pc = "Failed" /\ ~outcome.ok /\ outcome.msg = ErrEditNoImages)

C3_Witness ==
    /\ EditRun
    /\ AllReturned
    /\ Cardinality(WithImage) = 1
    /\ pc = "Done"
    /\ Len(outcome.value) = 1

(***************************************************************************)
(* C4.  Text-to-image run: once one of the 3 responses carries no image    *)
(* the run never succeeds, and when the requests have settled it has       *)
(* failed and returned no creative, whatever the other two carried.        *)
(***************************************************************************)
C4_TextToImageAllOrNothing ==
    (TextToImageRun /\ Issued /\ Emptied # {}) =>
        /\ pc # "Done"
        /\ outcome.value = <<>>
        /\ AllSettles(promises) => (pc = "Failed" /\ ~outcome.ok)
        /\ AllReturned => outcome.msg = ErrImageGen

C4_Witness ==
    /\ TextToImageRun
    /\ AllReturned
    /\ Cardinality(Emptied) = 1
    /\ Cardinality(WithImage) = 2
    /\ pc = "Failed"

(***************************************************************************)
(* C5.  A run is all-or-nothing: a failed product-info call, copy call,    *)
(* copy parse or asset step ends the run in failure with that step's       *)
(* error, no later step has been called, and the outcome carries no        *)
(* creative; nothing reaches the caller before the run is over.            *)
(***************************************************************************)
VideoErrors ==
    {ServiceError("generateVideos"), ServiceError("getVideosOperation"),
     ServiceError("fetch"), ErrVideoNoUri, ErrDownload}

C5_AllOrNothing ==
    /\ pc = "Failed" => (~outcome.ok /\ outcome.value = <<>>)
    /\ pc \in Running \cup {"Failed", "Done"} => results = NullResults
    /\ (textReply.op = "getProductInfo" /\ textReply.kind = "reject")
        => /\ pc = "Failed"
           /\ outcome.msg = ServiceError("getProductInfo")
           /\ ~Called({"proofreadText:hookText", "generateAdCopy", "proofreadAdCopy"}
                        \cup AssetOps)
    /\ (textReply.op = "generateAdCopy" /\ textReply.kind # "json")
        => /\ pc = "Failed"
           /\ outcome.msg = (IF textReply.kind = "reject"
                             THEN ServiceError("generateAdCopy") ELSE ErrCopyParse)
           /\ ~Called({"proofreadAdCopy"} \cup AssetOps)
    /\ ~Called(AssetOps) => (promises = <<>> /\ operation = NoOperation)
    /\ (\E i \in DOMAIN promises : promises[i].state = "rejected")
        => (pc = "Failed" /\ outcome.msg = ServiceError("generateImages"))
    /\ (AllReturned /\ WithImage = {})
        => (pc = "Failed"
            /\ outcome.msg = (IF EditRun THEN ErrEditNoImages ELSE ErrImageGen))
    /\ (operation.done /\ operation.uri = NoUri)
        => (pc = "Failed" /\ outcome.msg = ErrVideoNoUri)
    /\ (pc = "Failed" /\ LastCall = "generateVideos") => outcome.msg \in VideoErrors

C5_Witness ==
    /\ pc = "Failed"
    /\ textReply.op = "generateAdCopy"
    /\ textReply.kind = "garbage"
    /\ outcome.msg = ErrCopyParse
    /\ LastCall = "generateAdCopy"


(***************************************************************************)
(* C6, as claimed.  A video run that has polled ends, in Done or in        *)
(* Failed, only after it has observed the operation done.                  *)
(***************************************************************************)
C6_EndsOnlyAfterDone ==
    (VideoRun /\ polls >= 1 /\ pc \in {"Done", "Failed"}) => operation.done

(***************************************************************************)
(* C6, amended.  A video run polls for as long as the operation is not     *)
(* done; it ends without having observed done only when the generateVideos *)
(* or getVideosOperation request itself is rejected, which fails the run.  *)
(* Once done is observed with a video location the run fails only if the   *)
(* fetch fails, and when it ends Done its single record's url is the       *)
(* object URL made from the fetched video.                                 *)
(***************************************************************************)
C6_PollsUntilDone ==
    /\ pc = "PollVideo" => ~operation.done
    /\ (VideoRun /\ pc \in {"FetchVideo", "Done"})
        => (operation.done /\ operation.uri # NoUri)
    /\ (VideoRun /\ pc = "Failed" /\ LastCall = "generateVideos" /\ ~operation.done)
        => outcome.msg \in {ServiceError("generateVideos"),
                            ServiceError("getVideosOperation")}
    /\ (operation.done /\ operation.uri # NoUri /\ pc = "Failed")
        => outcome.msg \in {ServiceError("fetch"), ErrDownload}
    /\ (VideoRun /\ pc = "Done")
        => /\ outcome.ok
           /\ Len(outcome.value) = 1
           /\ outcome.value[1].url =
                [scheme |-> "blob", mime |-> "video",
                 data |-> <<"bytes of", operation.uri>>]

C6_Witness ==
    /\ VideoRun
    /\ pc = "Done"
    /\ polls = MaxPolls
    /\ operation.done
    /\ outcome.value[1].url.scheme = "blob"

(***************************************************************************)
(* C7.  In an image run that returns n creatives with a non-empty copy     *)
(* list of c entries, the creative at index i (from 0) carries the copy    *)
(* at index i mod c.                                                       *)
(***************************************************************************)
C7_CopyCycling ==
    (ImageRun /\ pc = "Done" /\ NonEmptyList(finalAdCopy)) =>
        LET n == Len(outcome.value)
            c == Len(finalAdCopy.items)
        IN  \A i \in 0..(n - 1) :
                outcome.value[i + 1].copy = finalAdCopy.items[(i % c) + 1]

C7_Witness ==
    /\ ImageRun
    /\ pc = "Done"
    /\ NonEmptyList(finalAdCopy)
    /\ Len(finalAdCopy.items) = 2
    /\ Len(outcome.value) = 3
    /\ outcome.value[3].copy = finalAdCopy.items[1]
    /\ outcome.value[3].copy # outcome.value[2].copy

(***************************************************************************)
(* C8.  In a text-to-image run each of the 3 requests carries the aspect   *)
(* ratio of the requested format: square 1:1, horizontal 16:9, vertical    *)
(* 9:16.                                                                   *)
(***************************************************************************)
C8_AspectRatio ==
    (TextToImageRun /\ Called({"generateImages"})) =>
        /\ Issued
        /\ \A i \in Variations :
            /\ promises[i].api = "generate"
            /\ promises[i].variation = i
            /\ inputs.creativeFormat = "SQUARE" => promises[i].aspectRatio = "1:1"
            /\ inputs.creativeFormat = "HORIZONTAL" => promises[i].aspectRatio = "16:9"
            /\ inputs.creativeFormat = "VERTICAL" => promises[i].aspectRatio = "9:16"

C8_Witness ==
    /\ TextToImageRun
    /\ pc = "AwaitImages"
    /\ inputs.creativeFormat = "VERTICAL"
    /\ \A i \in Variations : promises[i].aspectRatio = "9:16"

(***************************************************************************)
(* C9, as claimed.  When the form's description, URL and image are all     *)
(* absent the run starts with a non-empty description, and product-info    *)
(* resolution, copy generation and asset generation are never called with  *)
(* an empty description or product info.                                   *)
(***************************************************************************)
C9_NeverEmptyDownstream ==
    (/\ pc # "Idle"
     /\ ~Truthy(inputs.productUrl)
     /\ inputs.productImage = "none"
     /\ inputs.productDescription \notin (FormTexts \ {<<>>}))
    => /\ Truthy(inputs.productDescription)
       /\ \A k \in DOMAIN calls :
            calls[k].op \in {"getProductInfo", "generateAdCopy"} \cup AssetOps
                => Truthy(calls[k].text)

(***************************************************************************)
(* C10, as claimed.  When copy generation returned a non-empty list, the   *)
(* run gets past the copy proofreading to asset generation whatever the    *)
(* proofreading request yields.                                            *)
(***************************************************************************)
C10_ProofreadingNeverLoadBearing ==
    (NonEmptyList(initialAdCopy) /\ textReply.op = "proofreadAdCopy")
    => /\ Called(AssetOps)
       /\ ~(pc = "Failed" /\ LastCall = "proofreadAdCopy")


C12_ImageRecords ==
    (ImageRun /\ pc = "Done") =>
        LET n == Len(outcome.value) IN
        /\ outcome.ok
        /\ n \in 1..NumVariations
        /\ n = Cardinality(WithImage)
        /\ \A k \in 1..n :
            /\ outcome.value[k].type = "Image"
            /\ outcome.value[k].url.scheme = "data"
            /\ outcome.value[k].url.data \in WithImage
        /\ \A j, k \in 1..n :
            j < k => /\ outcome.value[j].url.data < outcome.value[k].url.data
                     /\ outcome.value[j].id # outcome.value[k].id

C12_Witness ==
    /\ ImageRun
    /\ pc = "Done"
    /\ Len(outcome.value) = 2
    /\ outcome.value[1].url.data = 1
    /\ outcome.value[2].url.data = 3
    /\ outcome.value[1].id # outcome.value[2].id


(***************************************************************************)
(* C13.  Starting a run sets the loading flag and clears results and       *)
(* error.  When a failed run is over the loading flag is off, results is   *)
(* null and error is that run's message; when a successful run is over     *)
(* the loading flag is off, error is null and results is the returned      *)
(* list.  Between runs results and error are never both set, and the       *)
(* loading flag is on exactly while a run is under way.                    *)
(***************************************************************************)
C13_Step ==
    /\ (pc = "Idle" /\ pc' # "Idle")
        => (isLoading' /\ results' = NullResults /\ error' = NoError)
    /\ (pc = "Failed" /\ pc' = "Idle")
        => /\ ~isLoading'
           /\ results' = NullResults
           /\ error' = outcome.msg
           /\ error' # NoError
    /\ (pc = "Done" /\ pc' = "Idle")
        => /\ ~isLoading'
           /\ error' = NoError
           /\ results' = [isNull |-> FALSE, list |-> outcome.value]
    /\ pc' = "Idle" => (~isLoading' /\ ~(~results'.isNull /\ error' # NoError))
    /\ pc' # "Idle" => isLoading'

C13_UiState == [][C13_Step]_vars

C13_Witness ==
    /\ pc = "Idle"
    /\ ~isLoading
    /\ error = ErrCopyParse
    /\ results = NullResults


Rejected == {i \in DOMAIN promises : promises[i].state = "rejected"}
StillPending == {i \in DOMAIN promises : promises[i].state = "pending"}
UsedImages == {outcome.value[k].url.data : k \in DOMAIN outcome.value}
ImagesOver == ImageRun /\ Issued /\ pc \in {"Done", "Failed"}

(***************************************************************************)
(* C14, as claimed.  The join of the three image requests waits for all of *)
(* them: an image run is over only when none of the three is pending, and  *)
(* every request that returned an image has its image used whatever        *)
(* happened to the other two.                                              *)
(***************************************************************************)
C14_WaitForAllJoin ==
    ImagesOver
        => /\ StillPending = {}
           /\ WithImage # {} => (pc = "Done" /\ UsedImages = WithImage)

(***************************************************************************)
(* C14, amended.  The three requests are issued together, before any is    *)
(* awaited.  The pipeline assembles only once all three are fulfilled, but *)
(* it fails at the first rejection, whether or not the others have         *)
(* completed, and then no image is used.  Among fulfilled requests of the  *)
(* image-edit branch, a request's image is used whether or not the others  *)
(* carried one.                                                            *)
(***************************************************************************)
C14_FailFastJoin ==
    /\ promises # <<>> => (ImageRun /\ Issued /\ Called({"generateImages"}))
    /\ pc = "AwaitImages" => (Issued /\ Rejected = {} /\ StillPending # {})
    /\ (ImageRun /\ pc = "Done") => AllReturned
    /\ Rejected # {}
        => /\ Cardinality(Rejected) = 1
           /\ pc = "Failed"
           /\ outcome.msg = ServiceError("generateImages")
           /\ outcome.value = <<>>
    /\ (ImagesOver /\ Rejected = {}) => StillPending = {}
    /\ (EditRun /\ AllReturned /\ WithImage # {})
        => (pc = "Done" /\ UsedImages = WithImage)

C14_Witness ==
    /\ EditRun
    /\ pc = "Failed"
    /\ Cardinality(Rejected) = 1
    /\ StillPending # {}
    /\ WithImage # {}


\* the place of a call in the fixed order of the steps
Rank(op) ==
    CASE op = "proofreadText:description" -> 1
      [] op = "getProductInfo" -> 2
      [] op = "proofreadText:hookText" -> 3
      [] op = "generateAdCopy" -> 4
      [] op = "proofreadAdCopy" -> 5
      [] op \in AssetOps -> 6
      [] OTHER -> 0

CallsOf(op) == {k \in DOMAIN calls : calls[k].op = op}

(***************************************************************************)
(* C15.  The calls of one run are made one after the other in the fixed    *)
(* order description proofreading, product info, hook proofreading, copy   *)
(* generation, copy proofreading, asset generation, each at most once.     *)
(* The description is proofread exactly when no URL was supplied and the   *)
(* description is non-empty, and product info is resolved from the         *)
(* proofread description; the hook text and the generated copy are         *)
(* proofread with the resolved product info as context; and no asset       *)
(* request exists before the copy proofreading has finished.               *)
(***************************************************************************)
C15_StepOrder ==
    /\ \A j, k \in DOMAIN calls :
            j < k => (0 < Rank(calls[j].op) /\ Rank(calls[j].op) < Rank(calls[k].op))
    /\ pc \in {"Idle", "ProofreadDesc"} => calls = <<>>
    /\ pc \notin {"Idle", "ProofreadDesc"}
        => (Called({"proofreadText:description"})
                <=> (~Truthy(inputs.productUrl) /\ Truthy(inputs.productDescription)))
    /\ pc = "GetProductInfo" => ~Called({"getProductInfo"})
    /\ pc = "ProofreadHook" => LastCall = "getProductInfo"
    /\ pc = "GenerateCopy" => LastCall \in {"getProductInfo", "proofreadText:hookText"}
    /\ pc = "ProofreadCopy" => LastCall = "generateAdCopy"
    /\ \A k \in CallsOf("getProductInfo") :
            calls[k].text = correctedInputs.productDescription
    /\ \A k \in CallsOf("proofreadText:hookText") :
            /\ Called({"getProductInfo"})
            /\ calls[k].context = productInfo
            /\ calls[k].text = inputs.hookText
    /\ Called({"generateAdCopy"})
        => /\ Called({"getProductInfo"})
           /\ Called({"proofreadText:hookText"}) <=> Truthy(inputs.hookText)
    /\ \A k \in CallsOf("proofreadAdCopy") :
            /\ Called({"generateAdCopy"})
            /\ calls[k].context = productInfo
    /\ (Called(AssetOps) \/ pc \in AssetStages
            \/ promises # <<>> \/ operation # NoOperation)
        => /\ Called({"proofreadAdCopy"})
           /\ finalAdCopy # Unset
           /\ LastCall \in AssetOps

C15_Witness ==
    /\ pc = "Done"
    /\ Len(calls) = 6
    /\ calls[1].op = "proofreadText:description"
    /\ calls[3].op = "proofreadText:hookText"
    /\ calls[3].context = productInfo
    /\ calls[6].op = "generateImages"


\* the style of each of the three prompts of VARIATION_PROMPTS, in order
PromptStyles == <<"Minimalist", "Lifestyle", "Dynamic">>

(***************************************************************************)
(* C16, as claimed.  Every image creative is labelled with the style of    *)
(* the prompt that produced its image (the image of request i carries the  *)
(* i-th style), also when only some of the requests of the image-edit      *)
(* branch returned an image.                                               *)
(***************************************************************************)
C16_LabelNamesProducingStyle ==
    (ImageRun /\ pc = "Done")
        => \A k \in DOMAIN outcome.value :
              outcome.value[k].variation[3] = PromptStyles[outcome.value[k].url.data]

(***************************************************************************)
(* C17, as claimed.  While a video run is in progress the interval that    *)
(* advances the status label is armed, so that the next tick moves the     *)
(* label to the next of the five messages.                                 *)
(***************************************************************************)
C17_LabelKeepsAdvancing ==
    (VideoRun /\ isLoading) => timer

====
